---- MODULE Spec2Model ----
(***************************************************************************)
(* Event extraction pipeline of go-together: the pre-build batch script    *)
(* (scripts/fetch-events.ts) and the on-demand POST handler (api/chat      *)
(* route).  Search fan-out -> join -> deduplicate -> context -> structured *)
(* extraction -> (batch only) sort -> publish / respond.                   *)
(*                                                                         *)
(* Non-ASCII literals of the source are written in ASCII here:             *)
(*   "concert"=演唱會 "exhibition"=展覽 "performing-arts"=表演藝術           *)
(*   "leisure"=生活休閒 "other"=其他 ; site names 寬宏="KHAM" 年代="ERA"      *)
(*   遠大="TICKETPLUS" 華山文創園區="HUASHAN" ; the page's prompt          *)
(*   查詢展覽="query-exhibitions" and its two error messages.             *)
(* The page (app/page.tsx, components/SidePanel) is modelled from its      *)
(* mount to the user's clicks on the filters and the side panel.           *)
(***************************************************************************)
EXTENDS Integers, Sequences, FiniteSets, TLC

(* ------------------------------ bounds -------------------------------- *)
\* number of configured sources taken from the head of TARGET_SITES
NumSites == 2
\* longest result list one search call returns
MaxHits == 1
\* longest events array the language model returns
MaxEvents == 2
\* longest merged raw-hit sequence given to the Deduplicator on its own
MaxRaw == 4
\* longest event list given to the sorter on its own
MaxSortLen == 4
\* first and last year of the clock values given to the Query Planner
FirstYear == 2027
LastYear == 2028

(* --------------------------- generic helpers -------------------------- *)
Front(s) == SubSeq(s, 1, Len(s) - 1)

Last(s) == s[Len(s)]

Range(s) == { s[i] : i \in 1..Len(s) }

Min(a, b) == IF a < b THEN a ELSE b

SeqsUpTo(S, n) == UNION { [1..k -> S] : k \in 0..n }

\* String.prototype.includes on character sequences
Includes(msg, needle) ==
    \E i \in 1..(Len(msg) - Len(needle) + 1) :
        SubSeq(msg, i, i + Len(needle) - 1) = needle

\* variant of Slice0: the whole string, whatever n
Slice0Whole(s, n) == s

\* String.prototype.slice(0, n) on character sequences
Slice0(s, n) == SubSeq(s, 1, Min(Len(s), n))

(* ----------------------- JavaScript numbers --------------------------- *)
\* a JS number is either NaN or a finite value
NaN == [nan |-> TRUE, v |-> 0]

Num(n) == [nan |-> FALSE, v |-> n]

\* dateA - dateB : NaN when either operand is NaN
NumSub(a, b) == IF a.nan \/ b.nan THEN NaN ELSE Num(a.v - b.v)

(* ------------------------- Query Planner ------------------------------ *)
\* a JS Date in local time, reduced to its calendar fields;
\* month is 0-based as getMonth() returns it
IsLeapYear(y) == (y % 4 = 0 /\ y % 100 # 0) \/ y % 400 = 0

DaysInMonth(y, m) ==
    IF m = 1 THEN (IF IsLeapYear(y) THEN 29 ELSE 28)
    ELSE IF m \in {3, 5, 8, 10} THEN 30 ELSE 31

\* ECMAScript MakeDay: a month >= 12 carries into the year and a day past
\* the end of the month carries into the following month(s)
RECURSIVE MakeDay(_, _, _)
MakeDay(y, m, d) ==
    IF m >= 12 THEN MakeDay(y + 1, m - 12, d)
    ELSE IF d > DaysInMonth(y, m) THEN MakeDay(y, m + 1, d - DaysInMonth(y, m))
    ELSE [year |-> y, month |-> m, date |-> d]

\* Date.prototype.setMonth(m): the day of month is kept, then normalised
SetMonth(dt, m) == MakeDay(dt.year, m, dt.date)

\* String(n).padStart(2, '0') as a pair of decimal digits
PadStart2(n) == IF n < 10 THEN <<0, n>> ELSE <<n \div 10, n % 10>>

\* formatDate: `${yyyy}/${mm}/${dd}` as its three fields
formatDate(dt) == <<dt.year, PadStart2(dt.month + 1), PadStart2(dt.date)>>

\* one keyword `"${year} ${month}月"`, as its two interpolated numbers
MonthKeyword(d) == [year |-> d.year, month |-> d.month + 1]

\* the loop for (i = 0; i < 3; i++) pushing one keyword per iteration
monthKeywords(nw) ==
    [k \in 1..3 |-> MonthKeyword(SetMonth(nw, nw.month + (k - 1)))]

\* searchString is monthKeywords.join(' OR '): the sequence of its terms
getDynamicDateParams(nw) ==
    [startDate    |-> formatDate(nw),
     endDate      |-> formatDate(SetMonth(nw, nw.month + 2)),
     searchString |-> monthKeywords(nw)]

\* every calendar date of the years FirstYear..LastYear
Clock ==
    { [year |-> y, month |-> m, date |-> d] :
        y \in FirstYear..LastYear, m \in 0..11, d \in 1..31 }

ValidClock == { c \in Clock : c.date <= DaysInMonth(c.year, c.month) }

\* the clock value of a pipeline run
RunClock == [year |-> 2027, month |-> 0, date |-> 15]

(* --------------------------- configuration ---------------------------- *)
TARGET_SITES ==
    << [name |-> "KKTIX",                 domain |-> "kktix.com"],
       [name |-> "KHAM",                  domain |-> "kham.com.tw"],
       [name |-> "ERA",                   domain |-> "ticket.com.tw"],
       [name |-> "TICKETPLUS",            domain |-> "ticketplus.com.tw"],
       [name |-> "iNDIEVOX",              domain |-> "indievox.com"],
       [name |-> "BILLBOARD LIVE TAIPEI", domain |-> "billboardlivetaipei.tw"],
       [name |-> "HUASHAN",               domain |-> "huashan1914.com"] >>

\* the sources a run of the model iterates over
Sites == 1..Min(NumSites, Len(TARGET_SITES))

EventCategoryEnum ==
    {"concert", "exhibition", "performing-arts", "leisure", "other"}

SourceEnum ==
    {"KKTIX", "KHAM", "TICKETPLUS", "ERA", "iNDIEVOX",
     "BILLBOARD LIVE TAIPEI", "HUASHAN", "other"}

\* the query and options of the search call for one site
SearchCall(site, searchString) ==
    [domain       |-> site.domain,
     keywords     |-> searchString,
     maxResults   |-> 15,
     search_depth |-> IF site.name = "BILLBOARD LIVE TAIPEI"
                      THEN "advanced" ELSE "basic"]

\* the earlier version of the script: its sites and its source enum
TARGET_SITES_EARLIER ==
    << [name |-> "KKTIX",                 domain |-> "kktix.com"],
       [name |-> "KHAM",                  domain |-> "kham.com.tw"],
       [name |-> "ERA",                   domain |-> "ticket.com.tw"],
       [name |-> "TICKETPLUS",            domain |-> "ticketplus.com.tw"],
       [name |-> "INDIEVOX",              domain |-> "indievox.com"],
       [name |-> "Billboard Live TAIPEI", domain |-> "billboardlivetaipei.tw"] >>

SourceEnumEarlier ==
    {"KKTIX", "KHAM", "TICKETPLUS", "ERA", "Billboard Live TAIPEI", "other"}

\* the three pipeline variants: the script, the POST handler and the
\* earlier version of the script
Variants == {"batch", "ondemand", "earlier"}

TargetSitesOf(variant) ==
    IF variant = "earlier" THEN TARGET_SITES_EARLIER ELSE TARGET_SITES

SourceEnumOf(variant) ==
    IF variant = "earlier" THEN SourceEnumEarlier ELSE SourceEnum

(* ------------------- Search Collector / Deduplicator ------------------ *)
\* RawHit values: two hits with one link and different fields, and a hit
\* with another link
hitA == [url |-> "a", title |-> "t1", content |-> <<"x", "y">>]

hitA2 == [url |-> "a", title |-> "t2", content |-> <<"z">>]

hitB == [url |-> "b", title |-> "t1", content |-> <<"x", "y">>]

\* the merged raw hits given to the Deduplicator on its own
RawHits == {hitA, hitA2, hitB}

\* the hits a search call of a pipeline run can return
SearchHits == {hitA2, hitB}

\* (await Promise.all(searchPromises)).flat(): the per-source lists
\* concatenated in the order of TARGET_SITES
RECURSIVE Flat(_, _)
Flat(lists, n) ==
    IF n = 0 THEN <<>> ELSE Flat(lists, n - 1) \o lists[n]

\* variant of MapSet: a key already present keeps its first value
MapSetKeepFirst(m, key, value) ==
    IF \E i \in 1..Len(m) : m[i].key = key
    THEN m
    ELSE Append(m, [key |-> key, value |-> value])

\* variant of MapSet: a key already present is deleted and set again, so it
\* moves to the end of the insertion order
MapSetMoveToEnd(m, key, value) ==
    Append(SelectSeq(m, LAMBDA en : en.key # key), [key |-> key, value |-> value])

\* Map.prototype.set on a Map kept as its entries in insertion order:
\* an existing key keeps its position and takes the new value
MapSet(m, key, value) ==
    IF \E i \in 1..Len(m) : m[i].key = key
    THEN [i \in 1..Len(m) |->
            IF m[i].key = key THEN [key |-> key, value |-> value] ELSE m[i]]
    ELSE Append(m, [key |-> key, value |-> value])

\* new Map(entries): the entries are set one after the other
RECURSIVE NewMap(_)
NewMap(entries) ==
    IF entries = <<>> THEN <<>>
    ELSE MapSet(NewMap(Front(entries)), Last(entries)[1], Last(entries)[2])

\* Array.from(map.values())
MapValues(m) == [i \in 1..Len(m) |-> m[i].value]

\* uniqueResults
Dedup(items) ==
    MapValues(NewMap([i \in 1..Len(items) |-> <<items[i].url, items[i]>>]))

(* -------------------------- Context Assembler ------------------------- *)
SnippetLimit == 1000

\* the separator '\n\n---\n\n' between two blocks
Separator == [separator |-> TRUE]

\* Array.prototype.join: the elements with the separator between them
RECURSIVE ArrayJoin(_, _)
ArrayJoin(parts, sep) ==
    IF parts = <<>> THEN <<>>
    ELSE IF Len(parts) = 1 THEN <<parts[1]>>
    ELSE ArrayJoin(Front(parts), sep) \o <<sep, Last(parts)>>

\* one block `[ID:${i}] 標題: ${title}\n來源: ${url}\n內文摘要: ${snippet}`,
\* as its four interpolated values
blockOf(r, i) ==
    [id      |-> i,
     title   |-> r.title,
     url     |-> r.url,
     snippet |-> Slice0(r.content, SnippetLimit)]

\* searchContext: the blocks of the unique hits, joined
searchContextOf(unique) ==
    ArrayJoin([i \in 1..Len(unique) |-> blockOf(unique[i], i - 1)], Separator)

\* the blocks of a context, without the separators
Blocks(text) == SelectSeq(text, LAMBDA piece : piece # Separator)

(* ------------------------------ EventSchema --------------------------- *)
Session(dates) == [location |-> "hall", date |-> dates, url |-> "u"]

Event(title, category, sessions) ==
    [title |-> title, category |-> category, source |-> "KKTIX",
     sessions |-> sessions]

evLate == Event("A", "concert", <<Session(<<"2027-03-10">>)>>)

evEarly == Event("B", "exhibition", <<Session(<<"2027-02-15", "2027-02-20">>)>>)

evNoSessions == Event("C", "concert", <<>>)

evOddDates ==
    Event("D", "concert",
          <<Session(<<>>),
            Session(<<"2027-01-05", "2027-02-15", "2027-03-10">>)>>)

evBadCategory == Event("F", "festival", <<Session(<<"2027-01-05">>)>>)

evFirst == Event("G", "leisure", <<Session(<<"2027-01-05">>)>>)

evUnparsable == Event("H", "other", <<Session(<<"TBA">>)>>)

\* the event objects the language model can put in its answer
ModelEvents ==
    {evLate, evEarly, evNoSessions, evOddDates, evBadCategory}

\* z.array(z.object({ location, date: z.array(z.string()), url }))
SessionsSchema(sessions) ==
    \A i \in 1..Len(sessions) :
        /\ DOMAIN sessions[i] = {"location", "date", "url"}
        /\ \A j \in 1..Len(sessions[i].date) : sessions[i].date[j] \in STRING

\* EventSchema.safeParse(obj).success, for the schema of a variant
EventSchemaOf(variant, obj) ==
    \A i \in 1..Len(obj.events) :
        /\ SessionsSchema(obj.events[i].sessions)
        /\ obj.events[i].category \in EventCategoryEnum
        /\ obj.events[i].source \in SourceEnumOf(variant)

\* EventSchema.safeParse(obj).success
EventSchema(obj) == EventSchemaOf("batch", obj)

\* an event the language model labels with a source
LabelledEvent(label, category) ==
    [Event("L", category, <<Session(<<"2027-01-05">>)>>) EXCEPT !.source = label]

\* the labels tried: every site name and enum value of every variant, and a
\* label that is neither
SourceLabels ==
    { TARGET_SITES[i].name : i \in 1..Len(TARGET_SITES) }
        \cup { TARGET_SITES_EARLIER[i].name : i \in 1..Len(TARGET_SITES_EARLIER) }
        \cup SourceEnum \cup SourceEnumEarlier \cup {"kktix"}

(* --------------------------- Normalizer/Sorter ------------------------ *)
\* days from 1970-01-01 to the civil date y-m-d (m is 1..12)
DayNumber(y, m, d) ==
    LET yy  == IF m <= 2 THEN y - 1 ELSE y
        era == yy \div 400
        yoe == yy - era * 400
        mp  == IF m > 2 THEN m - 3 ELSE m + 9
        doy == (153 * mp + 2) \div 5 + d - 1
        doe == yoe * 365 + yoe \div 4 - yoe \div 100 + doy
    IN  era * 146097 + doe - 719468

Undefined == "undefined"

\* new Date(x).valueOf(), in days: the date strings of the model that
\* Date can parse; every other value (undefined included) is Invalid Date
DateValueOf(x) ==
    CASE x = "2027-01-05" -> Num(DayNumber(2027, 1, 5))
      [] x = "2027-02-15" -> Num(DayNumber(2027, 2, 15))
      [] x = "2027-02-20" -> Num(DayNumber(2027, 2, 20))
      [] x = "2027-03-10" -> Num(DayNumber(2027, 3, 10))
      [] OTHER            -> NaN

\* a.sessions[0]?.date[0]  (undefined when there is no first session or
\* the first session has no first date)
LeadingDate(e) ==
    IF Len(e.sessions) = 0 THEN Undefined
    ELSE IF Len(e.sessions[1].date) = 0 THEN Undefined
    ELSE e.sessions[1].date[1]

\* the comparator (a, b) => dateA - dateB
compareFn(a, b) == NumSub(DateValueOf(LeadingDate(a)), DateValueOf(LeadingDate(b)))

\* Array.prototype.sort calls the comparator and reads NaN as +0
SortCompare(a, b) ==
    LET v == compareFn(a, b) IN IF v.nan THEN 0 ELSE v.v

Reverse(s) == [i \in 1..Len(s) |-> s[Len(s) + 1 - i]]

\* the run that starts the array: its last index, idx being the next
\* element to look at
RECURSIVE RunEnd(_, _, _)
RunEnd(a, isDescending, idx) ==
    IF idx > Len(a) THEN Len(a)
    ELSE LET order == SortCompare(a[idx], a[idx - 1])
         IN  IF isDescending
             THEN (IF order >= 0 THEN idx - 1 ELSE RunEnd(a, isDescending, idx + 1))
             ELSE (IF order < 0 THEN idx - 1 ELSE RunEnd(a, isDescending, idx + 1))

\* binary search of the insertion point of pivot in a[left..right-1]
RECURSIVE InsertionPoint(_, _, _, _)
InsertionPoint(a, pivot, left, right) ==
    IF left >= right THEN left
    ELSE LET mid == left + ((right - left) \div 2)
         IN  IF SortCompare(pivot, a[mid]) < 0
             THEN InsertionPoint(a, pivot, left, mid)
             ELSE InsertionPoint(a, pivot, mid + 1, right)

\* binary insertion sort of a[start..], a[1..start-1] being in order
RECURSIVE BinaryInsertionSort(_, _)
BinaryInsertionSort(a, start) ==
    IF start > Len(a) THEN a
    ELSE LET pivot == a[start]
             left  == InsertionPoint(a, pivot, 1, start)
             moved == SubSeq(a, 1, left - 1) \o <<pivot>>
                        \o SubSeq(a, left, start - 1)
                        \o SubSeq(a, start + 1, Len(a))
         IN  BinaryInsertionSort(moved, start + 1)

\* events.sort(compareFn) on the runtime of the script (arrays shorter than
\* 64 elements: one run is found, reversed when descending, and the rest is
\* inserted by binary insertion)
ArraySort(a) ==
    IF Len(a) < 2 THEN a
    ELSE LET isDescending == SortCompare(a[2], a[1]) < 0
             runLength    == RunEnd(a, isDescending, 3)
             run          == IF isDescending
                             THEN Reverse(SubSeq(a, 1, runLength))
                             ELSE SubSeq(a, 1, runLength)
         IN  BinaryInsertionSort(run \o SubSeq(a, runLength + 1, Len(a)),
                                 runLength + 1)

(* ------------------------- errors and responses ----------------------- *)
\* error messages as character sequences
MsgHttp429 == <<"e", "r", "r", " ", "4", "2", "9">>

MsgQuota == <<"q", "u", "o", "t", "a", " ", "h", "i", "t">>

MsgExceeded == <<"t", "i", "m", "e", " ", "e", "x", "c", "e", "e", "d", "e", "d">>

MsgNetwork == <<"f", "e", "t", "c", "h", " ", "f", "a", "i", "l", "e", "d">>

MsgNoObject == <<"n", "o", " ", "o", "b", "j", "e", "c", "t">>

MsgBadJson == <<"b", "a", "d", " ", "J", "S", "O", "N">>

MsgSearchDown == <<"s", "e", "a", "r", "c", "h", " ", "d", "o", "w", "n">>

\* a thrown value: an Error object with its message
ErrorObject(message) == [instanceOfError |-> TRUE, message |-> message]

\* a thrown value that is not an Error: a string
ThrownString(value) == [instanceOfError |-> FALSE, value |-> value]

\* what the language-model call can fail with by itself
TransportErrors ==
    { ErrorObject(MsgHttp429), ErrorObject(MsgQuota),
      ErrorObject(MsgExceeded), ErrorObject(MsgNetwork),
      ThrownString(MsgQuota) }

\* what a search call rejects with
SearchError == ErrorObject(MsgSearchDown)

SchemaError == ErrorObject(MsgNoObject)

BodyError == ErrorObject(MsgBadJson)

NoError == ThrownString(<<>>)

\* what a client library throws when it is given no API key
ConfigError == ErrorObject(<<"n", "o", " ", "A", "P", "I", " ", "k", "e", "y">>)

\* error instanceof Error ? error.message : String(error)
MessageOf(error) ==
    IF error.instanceOfError THEN error.message ELSE error.value

\* the fixed text of the 429 body and the prefix of the 500 body
QuotaNotice == <<"A", "P", "I">>

ServerErrorPrefix == <<"5", "x", "x", ":">>

\* variant of CatchResponse: only "quota" and "429" are read as a quota error
CatchResponseTwoNeedles(error) ==
    LET message == MessageOf(error)
    IN  IF \/ Includes(message, <<"q", "u", "o", "t", "a">>)
           \/ Includes(message, <<"4", "2", "9">>)
        THEN [status |-> 429,
              body   |-> [error |-> "QUOTA_EXCEEDED", message |-> QuotaNotice]]
        ELSE [status |-> 500,
              body   |-> [error   |-> "INTERNAL_ERROR",
                          message |-> ServerErrorPrefix \o message]]

\* the catch block of POST
CatchResponse(error) ==
    LET message == MessageOf(error)
    IN  IF \/ Includes(message, <<"q", "u", "o", "t", "a">>)
           \/ Includes(message, <<"4", "2", "9">>)
           \/ Includes(message, <<"e", "x", "c", "e", "e", "d", "e", "d">>)
        THEN [status |-> 429,
              body   |-> [error |-> "QUOTA_EXCEEDED", message |-> QuotaNotice]]
        ELSE [status |-> 500,
              body   |-> [error   |-> "INTERNAL_ERROR",
                          message |-> ServerErrorPrefix \o message]]

\* variant of OkResponse: the body loses the last event
OkResponseTruncated(object) ==
    [status |-> 200, body |-> [events |-> Front(object.events)]]

\* Response.json(result.object)
OkResponse(object) == [status |-> 200, body |-> object]

NoResponse == [status |-> 0, body |-> [events |-> <<>>]]

\* the events.json left by the previous run
PreviousFile == [events |-> <<evFirst>>]

\* what the language model answers: an object, checked against the schema
\* by generateObject, or a failure of the call
ModelAnswers ==
    { [kind |-> "object", object |-> [events |-> es]] :
        es \in SeqsUpTo(ModelEvents, MaxEvents) }
    \cup { [kind |-> "error", error |-> e] : e \in TransportErrors }

\* generateObject: the validated object, or the error it throws
generateObject(answer) ==
    IF answer.kind = "error" THEN [ok |-> FALSE, error |-> answer.error]
    ELSE IF EventSchema(answer.object)
         THEN [ok |-> TRUE, object |-> answer.object]
         ELSE [ok |-> FALSE, error |-> SchemaError]

(* ------------------------------- state -------------------------------- *)
VARIABLES
    mode,           \* "batch" (scripts/fetch-events.ts) or "ondemand" (POST)
    pc,             \* where the run stands
    now,            \* new Date() of the run
    dateParams,     \* { startDate, endDate, searchString }
    searchCalls,    \* the tvly.search calls issued, in order
    status,         \* per source: "idle", "pending", "ok", "failed"
    results,        \* per source: what its promise resolved to
    outOfOrder,     \* a call has settled before the call of an earlier source
    allRawResults,
    uniqueResults,
    searchContext,
    llmCalls,       \* the prompts given to generateObject
    resultObject,   \* result.object
    thrown,         \* the error caught at the top level
    file,           \* public/events.json
    writes,         \* number of writeFileSync calls
    exitCode,       \* exit status of the batch process
    response,       \* the Response returned by POST
    env,            \* process.env: which API keys are set
    request,        \* the body of the POST request
    twin,           \* a second POST request told apart by its prompt only
    pageStep,       \* where fetchEvents of the page stands
    fetched,        \* the Response the page's fetch resolved to
    events,         \* useState of Home
    loading,
    error,
    selectedEvent,
    activeCategory,
    activeLocation,
    activeTag,
    storage,        \* localStorage item 'events'
    crashed,        \* a render of Home has thrown
    lastClick       \* the control the user clicked last

runVars ==
    <<mode, pc, now, dateParams, searchCalls, status, results, outOfOrder,
      allRawResults, uniqueResults, searchContext, llmCalls, resultObject,
      thrown, file, writes, exitCode, response>>

requestVars == <<env, request, twin>>

pageVars ==
    <<pageStep, fetched, events, loading, error, selectedEvent, activeCategory,
      activeLocation, activeTag, storage, crashed, lastClick>>

vars == <<runVars, requestVars, pageVars>>

\* JavaScript null where a string is expected
Null == "<null>"

\* JavaScript null where an object is expected
NullObject == [null |-> TRUE]

\* process.env with both API keys set
FullEnv == [TAVILY_API_KEY |-> TRUE, GOOGLE_GENERATIVE_AI_API_KEY |-> TRUE]

NoRequest == [prompt |-> Null]

\* the prompt the page sends, and another one
PagePrompt == "query-exhibitions"

Prompts == {PagePrompt, "ignore-the-rules"}

NoTwin == [request |-> NoRequest, searchCalls |-> <<>>, llmCalls |-> <<>>,
           response |-> NoResponse]

\* variant of searchPromisesOf: the caller's prompt is searched for
searchPromisesOfPrompt(body, searchString) ==
    [s \in Sites |-> SearchCall(TARGET_SITES[s], body.prompt)]

\* the tvly.search calls of a run handling the request body `body`
searchPromisesOf(body, searchString) ==
    [s \in Sites |-> SearchCall(TARGET_SITES[s], searchString)]

\* variant of promptOf: the caller's prompt is passed on to the model
promptOfWithQuestion(body, params, context) ==
    [startDate |-> params.startDate,
     endDate   |-> params.endDate,
     data      |-> context,
     question  |-> body.prompt]

\* the prompt text of generateObject, as its interpolated values
promptOf(body, params, context) ==
    [startDate |-> params.startDate,
     endDate   |-> params.endDate,
     data      |-> context]

\* every process.env as far as the two API keys go
Envs == [TAVILY_API_KEY : BOOLEAN, GOOGLE_GENERATIVE_AI_API_KEY : BOOLEAN]

\* a run outside the browser and with its configuration in place
InitRequest ==
    /\ env = FullEnv
    /\ request = NoRequest
    /\ twin = NoTwin

\* the POST request of the page, and a second one that differs from it in
\* its prompt
InitPost ==
    /\ env = FullEnv
    /\ request = [prompt |-> PagePrompt]
    /\ \E p \in Prompts \ {request.prompt} :
          twin = [NoTwin EXCEPT !.request = [prompt |-> p]]

\* Home before it is mounted: the initial values of its useState hooks
InitHome ==
    /\ fetched = NullObject
    /\ events = <<>>
    /\ loading = TRUE
    /\ error = Null
    /\ selectedEvent = NullObject
    /\ activeCategory = Null
    /\ activeLocation = Null
    /\ activeTag = Null
    /\ crashed = FALSE
    /\ lastClick = Null

InitNoPage ==
    /\ pageStep = "unmounted"
    /\ storage = NullObject
    /\ InitHome

NoParams == [startDate |-> <<>>, endDate |-> <<>>, searchString |-> <<>>]

\* everything before the first statement of main / POST
InitRun ==
    /\ dateParams = NoParams
    /\ searchCalls = <<>>
    /\ status = [s \in Sites |-> "idle"]
    /\ results = [s \in Sites |-> <<>>]
    /\ outOfOrder = FALSE
    /\ allRawResults = <<>>
    /\ uniqueResults = <<>>
    /\ searchContext = <<>>
    /\ llmCalls = <<>>
    /\ resultObject = [events |-> <<>>]
    /\ thrown = NoError
    /\ file = PreviousFile
    /\ writes = 0
    /\ exitCode = 0
    /\ response = NoResponse
    /\ InitNoPage

Init ==
    /\ mode \in {"batch", "ondemand"}
    /\ pc = "start"
    /\ now = RunClock
    /\ InitRun
    /\ IF mode = "ondemand" THEN InitPost ELSE InitRequest

(* ------------------------------ actions ------------------------------- *)
\* TARGET_SITES.map(async site => ...): every callback runs up to its
\* await, so all search calls are issued in one synchronous step
IssueSearches ==
    /\ dateParams' = getDynamicDateParams(now)
    /\ searchCalls' = searchPromisesOf(request, dateParams'.searchString)
    /\ status' = [s \in Sites |-> "pending"]
    /\ pc' = "searching"

\* main(): from its first line to await Promise.all(searchPromises)
BatchStart ==
    /\ mode = "batch"
    /\ pc = "start"
    /\ IssueSearches
    /\ UNCHANGED <<mode, now, results, outOfOrder, allRawResults, uniqueResults,
                   searchContext, llmCalls, resultObject, thrown, file,
                   writes, exitCode, response>>
    /\ UNCHANGED <<requestVars, pageVars>>

\* POST: req.json() resolved; on to await Promise.all(searchPromises)
PostStart ==
    /\ mode = "ondemand"
    /\ pc = "start"
    /\ IssueSearches
    /\ UNCHANGED <<mode, now, results, outOfOrder, allRawResults, uniqueResults,
                   searchContext, llmCalls, resultObject, thrown, file,
                   writes, exitCode, response>>
    /\ twin' = [twin EXCEPT !.searchCalls =
                    searchPromisesOf(twin.request, dateParams'.searchString)]
    /\ UNCHANGED <<env, request, pageVars>>

\* POST: req.json() rejected; the catch block answers
PostBodyRejected ==
    /\ mode = "ondemand"
    /\ pc = "start"
    /\ thrown' = BodyError
    /\ response' = CatchResponse(BodyError)
    /\ pc' = "done"
    /\ UNCHANGED <<mode, now, dateParams, searchCalls, status, results,
                   outOfOrder, allRawResults, uniqueResults, searchContext,
                   llmCalls, resultObject, file, writes, exitCode>>
    /\ twin' = [twin EXCEPT !.response = CatchResponse(BodyError)]
    /\ UNCHANGED <<env, request, pageVars>>

\* the search client has an API key: the script passes a literal key, the
\* POST handler passes process.env.TAVILY_API_KEY
tavilyKey == mode = "batch" \/ env.TAVILY_API_KEY

\* the model provider has an API key: process.env.GOOGLE_GENERATIVE_AI_API_KEY
googleKey == env.GOOGLE_GENERATIVE_AI_API_KEY

\* POST: tavily({ apiKey: undefined }) throws; the catch block answers
PostClientRejected ==
    /\ mode = "ondemand"
    /\ pc = "start"
    /\ ~tavilyKey
    /\ thrown' = ConfigError
    /\ response' = CatchResponse(ConfigError)
    /\ pc' = "done"
    /\ UNCHANGED <<mode, now, dateParams, searchCalls, status, results,
                   outOfOrder, allRawResults, uniqueResults, searchContext,
                   llmCalls, resultObject, file, writes, exitCode>>
    /\ twin' = [twin EXCEPT !.response = CatchResponse(ConfigError)]
    /\ UNCHANGED <<env, request, pageVars>>

\* the script: createGoogleGenerativeAI({ apiKey: undefined }) throws while
\* the module is loaded, before main() is called
BatchProviderRejected ==
    /\ mode = "batch"
    /\ pc = "start"
    /\ ~googleKey
    /\ thrown' = ConfigError
    /\ exitCode' = 1
    /\ pc' = "done"
    /\ UNCHANGED <<mode, now, dateParams, searchCalls, status, results,
                   outOfOrder, allRawResults, uniqueResults, searchContext,
                   llmCalls, resultObject, file, writes, response>>
    /\ UNCHANGED <<requestVars, pageVars>>

\* tvly.search of source s resolved: return result.results
SearchResolved(s, hits) ==
    /\ pc = "searching"
    /\ status[s] = "pending"
    /\ tavilyKey
    /\ status' = [status EXCEPT ![s] = "ok"]
    /\ results' = [results EXCEPT ![s] = hits]
    /\ outOfOrder' = (outOfOrder \/ \E t \in Sites : t < s /\ status[t] = "pending")
    /\ UNCHANGED <<mode, pc, now, dateParams, searchCalls, allRawResults,
                   uniqueResults, searchContext, llmCalls, resultObject,
                   thrown, file, writes, exitCode, response>>
    /\ UNCHANGED <<requestVars, pageVars>>

\* variant of SearchRejected: no try/catch around the search call, the
\* rejection reaches the top level of the run
SearchRejectedUncaught(s) ==
    /\ pc = "searching"
    /\ status[s] = "pending"
    /\ status' = [status EXCEPT ![s] = "failed"]
    /\ outOfOrder' = (outOfOrder \/ \E t \in Sites : t < s /\ status[t] = "pending")
    /\ thrown' = SearchError
    /\ exitCode' = IF mode = "batch" THEN 1 ELSE exitCode
    /\ response' = IF mode = "ondemand" THEN CatchResponse(SearchError) ELSE response
    /\ pc' = "done"
    /\ UNCHANGED <<mode, now, dateParams, searchCalls, results, allRawResults,
                   uniqueResults, searchContext, llmCalls, resultObject,
                   file, writes>>
    /\ UNCHANGED <<requestVars, pageVars>>

\* variant of SearchRejected: the catch block issues the search call of the
\* failed source once more
SearchRejectedRetries(s) ==
    /\ pc = "searching"
    /\ status[s] = "pending"
    /\ Len(searchCalls) = Cardinality(Sites)
    /\ searchCalls' = Append(searchCalls, searchCalls[s])
    /\ UNCHANGED <<mode, pc, now, dateParams, status, results, outOfOrder,
                   allRawResults, uniqueResults, searchContext, llmCalls,
                   resultObject, thrown, file, writes, exitCode, response>>
    /\ UNCHANGED <<requestVars, pageVars>>

\* tvly.search of source s rejected: catch (e) { return [] }
SearchRejected(s) ==
    /\ pc = "searching"
    /\ status[s] = "pending"
    /\ status' = [status EXCEPT ![s] = "failed"]
    /\ results' = [results EXCEPT ![s] = <<>>]
    /\ outOfOrder' = (outOfOrder \/ \E t \in Sites : t < s /\ status[t] = "pending")
    /\ UNCHANGED <<mode, pc, now, dateParams, searchCalls, allRawResults,
                   uniqueResults, searchContext, llmCalls, resultObject,
                   thrown, file, writes, exitCode, response>>
    /\ UNCHANGED <<requestVars, pageVars>>

\* variant of Join: Promise.race in place of Promise.all, the pipeline goes
\* on as soon as one search call has settled
JoinOnFirstSettled ==
    /\ pc = "searching"
    /\ \E s \in Sites : status[s] \in {"ok", "failed"}
    /\ allRawResults' = Flat(results, Cardinality(Sites))
    /\ uniqueResults' = Dedup(allRawResults')
    /\ searchContext' = searchContextOf(uniqueResults')
    /\ llmCalls' = Append(llmCalls, promptOf(request, dateParams, searchContext'))
    /\ pc' = "extracting"
    /\ UNCHANGED <<mode, now, dateParams, searchCalls, status, results,
                   outOfOrder, resultObject, thrown, file, writes, exitCode,
                   response>>
    /\ twin' = IF mode = "ondemand"
               THEN [twin EXCEPT !.llmCalls =
                       Append(@, promptOf(twin.request, dateParams, searchContext'))]
               ELSE twin
    /\ UNCHANGED <<env, request, pageVars>>

\* Promise.all resolved: flat, deduplicate, assemble the context and call
\* generateObject
Join ==
    /\ pc = "searching"
    /\ \A s \in Sites : status[s] \in {"ok", "failed"}
    /\ allRawResults' = Flat(results, Cardinality(Sites))
    /\ uniqueResults' = Dedup(allRawResults')
    /\ searchContext' = searchContextOf(uniqueResults')
    /\ llmCalls' = Append(llmCalls, promptOf(request, dateParams, searchContext'))
    /\ pc' = "extracting"
    /\ UNCHANGED <<mode, now, dateParams, searchCalls, status, results,
                   outOfOrder, resultObject, thrown, file, writes, exitCode,
                   response>>
    /\ twin' = IF mode = "ondemand"
               THEN [twin EXCEPT !.llmCalls =
                       Append(@, promptOf(twin.request, dateParams, searchContext'))]
               ELSE twin
    /\ UNCHANGED <<env, request, pageVars>>

\* main(): generateObject resolved; sort, write the file, return
BatchExtracted(answer) ==
    /\ mode = "batch"
    /\ pc = "extracting"
    /\ googleKey
    /\ generateObject(answer).ok
    /\ resultObject' = [events |-> ArraySort(generateObject(answer).object.events)]
    /\ file' = [events |-> resultObject'.events]
    /\ writes' = writes + 1
    /\ pc' = "done"
    /\ UNCHANGED <<mode, now, dateParams, searchCalls, status, results,
                   outOfOrder, allRawResults, uniqueResults, searchContext,
                   llmCalls, thrown, exitCode, response>>
    /\ UNCHANGED <<requestVars, pageVars>>

\* variant of BatchExtractionFailed: the failure is swallowed and an empty
\* collection is published
BatchExtractionFailedPublishesEmpty(answer) ==
    /\ mode = "batch"
    /\ pc = "extracting"
    /\ ~generateObject(answer).ok
    /\ thrown' = generateObject(answer).error
    /\ file' = [events |-> <<>>]
    /\ writes' = writes + 1
    /\ pc' = "done"
    /\ UNCHANGED <<mode, now, dateParams, searchCalls, status, results,
                   outOfOrder, allRawResults, uniqueResults, searchContext,
                   llmCalls, resultObject, exitCode, response>>
    /\ UNCHANGED <<requestVars, pageVars>>

\* main(): generateObject threw; main().catch calls process.exit(1)
BatchExtractionFailed(answer) ==
    /\ mode = "batch"
    /\ pc = "extracting"
    /\ ~generateObject(answer).ok
    /\ thrown' = generateObject(answer).error
    /\ exitCode' = 1
    /\ pc' = "done"
    /\ UNCHANGED <<mode, now, dateParams, searchCalls, status, results,
                   outOfOrder, allRawResults, uniqueResults, searchContext,
                   llmCalls, resultObject, file, writes, response>>
    /\ UNCHANGED <<requestVars, pageVars>>

\* POST: generateObject resolved; return Response.json(result.object)
PostExtracted(answer) ==
    /\ mode = "ondemand"
    /\ pc = "extracting"
    /\ googleKey
    /\ generateObject(answer).ok
    /\ resultObject' = generateObject(answer).object
    /\ response' = OkResponse(resultObject')
    /\ pc' = "done"
    /\ UNCHANGED <<mode, now, dateParams, searchCalls, status, results,
                   outOfOrder, allRawResults, uniqueResults, searchContext,
                   llmCalls, thrown, file, writes, exitCode>>
    /\ twin' = [twin EXCEPT !.response = OkResponse(generateObject(answer).object)]
    /\ UNCHANGED <<env, request, pageVars>>

\* POST: generateObject threw; the catch block answers
PostExtractionFailed(answer) ==
    /\ mode = "ondemand"
    /\ pc = "extracting"
    /\ ~generateObject(answer).ok
    /\ thrown' = generateObject(answer).error
    /\ response' = CatchResponse(thrown')
    /\ pc' = "done"
    /\ UNCHANGED <<mode, now, dateParams, searchCalls, status, results,
                   outOfOrder, allRawResults, uniqueResults, searchContext,
                   llmCalls, resultObject, file, writes, exitCode>>
    /\ twin' = [twin EXCEPT !.response = CatchResponse(generateObject(answer).error)]
    /\ UNCHANGED <<env, request, pageVars>>

Next ==
    \/ BatchStart
    \/ PostStart
    \/ PostBodyRejected
    \/ \E s \in Sites : \E hits \in SeqsUpTo(SearchHits, MaxHits) : SearchResolved(s, hits)
    \/ \E s \in Sites : SearchRejected(s)
    \/ Join
    \/ \E answer \in ModelAnswers : BatchExtracted(answer)
    \/ \E answer \in ModelAnswers : BatchExtractionFailed(answer)
    \/ \E answer \in ModelAnswers : PostExtracted(answer)
    \/ \E answer \in ModelAnswers : PostExtractionFailed(answer)

Spec == Init /\ [][Next]_vars

TypeOK ==
    /\ mode \in Variants
    /\ pc \in {"start", "searching", "extracting", "done",
               "dedup", "deduped", "sort", "sorted", "plan", "planned",
               "label", "labelled", "context", "assembled"}
    /\ \A s \in Sites : status[s] \in {"idle", "pending", "ok", "failed"}
    /\ writes \in 0..1
    /\ exitCode \in {0, 1}
    /\ response.status \in {0, 200, 429, 500}
    /\ pageStep \in {"unmounted", "fetching", "parsing", "settled"}
    /\ loading \in BOOLEAN
    /\ crashed \in BOOLEAN
    /\ lastClick \in {Null, "retry", "category", "tag", "clear", "card",
                       "close", "panelTag"}

(* ---------------- runs with any configuration in process.env ---------- *)
\* what a client library does without its API key is not in the source: it
\* may throw when the client is made (PostClientRejected,
\* BatchProviderRejected) or when the client is used (the call fails)
InitConfig ==
    /\ mode \in {"batch", "ondemand"}
    /\ pc = "start"
    /\ now = RunClock
    /\ InitRun
    /\ env \in Envs
    /\ request = (IF mode = "ondemand" THEN [prompt |-> PagePrompt] ELSE NoRequest)
    /\ twin = (IF mode = "ondemand"
               THEN [NoTwin EXCEPT !.request =
                       [prompt |-> CHOOSE p \in Prompts : p # PagePrompt]]
               ELSE NoTwin)

NextConfig ==
    \/ Next
    \/ PostClientRejected
    \/ BatchProviderRejected

SpecConfig == InitConfig /\ [][NextConfig]_vars

(* ------------- the Deduplicator on its own (pure function) ------------ *)
InitDedup ==
    /\ mode = "batch"
    /\ pc = "dedup"
    /\ now = RunClock
    /\ dateParams = NoParams
    /\ searchCalls = <<>>
    /\ status = [s \in Sites |-> "idle"]
    /\ results = [s \in Sites |-> <<>>]
    /\ outOfOrder = FALSE
    /\ allRawResults \in SeqsUpTo(RawHits, MaxRaw)
    /\ uniqueResults = <<>>
    /\ searchContext = <<>>
    /\ llmCalls = <<>>
    /\ resultObject = [events |-> <<>>]
    /\ thrown = NoError
    /\ file = PreviousFile
    /\ writes = 0
    /\ exitCode = 0
    /\ response = NoResponse
    /\ InitRequest
    /\ InitNoPage

\* const uniqueResults = Array.from(new Map(...).values()), and the
\* searchContext made of it
Deduplicate ==
    /\ pc = "dedup"
    /\ uniqueResults' = Dedup(allRawResults)
    /\ searchContext' = searchContextOf(uniqueResults')
    /\ pc' = "deduped"
    /\ UNCHANGED <<mode, now, dateParams, searchCalls, status, results,
                   outOfOrder, allRawResults, llmCalls,
                   resultObject, thrown, file, writes, exitCode, response>>
    /\ UNCHANGED <<requestVars, pageVars>>

NextDedup == Deduplicate

SpecDedup == InitDedup /\ [][NextDedup]_vars

(* ---------- the Context Assembler on its own (pure function) ---------- *)
\* the longest list of unique hits given to the assembler
MaxUnique == 2

\* contents around the character budget: empty, short, exactly the budget,
\* one character more
ContentOfLength(n) ==
    [k \in 1..n |-> IF k = 1 THEN "a" ELSE IF k <= SnippetLimit THEN "x" ELSE "y"]

Contents ==
    { ContentOfLength(0), ContentOfLength(2), ContentOfLength(SnippetLimit),
      ContentOfLength(SnippetLimit + 1) }

UniqueHits ==
    { [url |-> u, title |-> "t1", content |-> c] : u \in {"a", "b", "c"}, c \in Contents }

InitContext ==
    /\ mode \in {"batch", "ondemand"}
    /\ pc = "context"
    /\ now = RunClock
    /\ dateParams = NoParams
    /\ searchCalls = <<>>
    /\ status = [s \in Sites |-> "idle"]
    /\ results = [s \in Sites |-> <<>>]
    /\ outOfOrder = FALSE
    /\ allRawResults = <<>>
    /\ uniqueResults \in
          { u \in SeqsUpTo(UniqueHits, MaxUnique) :
              \A i \in 1..Len(u) : \A j \in 1..Len(u) : i # j => u[i].url # u[j].url }
    /\ searchContext = <<>>
    /\ llmCalls = <<>>
    /\ resultObject = [events |-> <<>>]
    /\ thrown = NoError
    /\ file = PreviousFile
    /\ writes = 0
    /\ exitCode = 0
    /\ response = NoResponse
    /\ InitRequest
    /\ InitNoPage

\* const searchContext = uniqueResults.map(...).join(...)
AssembleContext ==
    /\ pc = "context"
    /\ searchContext' = searchContextOf(uniqueResults)
    /\ pc' = "assembled"
    /\ UNCHANGED <<mode, now, dateParams, searchCalls, status, results,
                   outOfOrder, allRawResults, uniqueResults, llmCalls,
                   resultObject, thrown, file, writes, exitCode, response>>
    /\ UNCHANGED <<requestVars, pageVars>>

NextContext == AssembleContext

SpecContext == InitContext /\ [][NextContext]_vars

(* ---------------- the sorter on its own (pure function) --------------- *)
\* the events given to the sorter: parsable and unparsable leading dates
SortEvents == {evFirst, evEarly, evLate, evUnparsable}

InitSort ==
    /\ mode = "batch"
    /\ pc = "sort"
    /\ now = RunClock
    /\ dateParams = NoParams
    /\ searchCalls = <<>>
    /\ status = [s \in Sites |-> "idle"]
    /\ results = [s \in Sites |-> <<>>]
    /\ outOfOrder = FALSE
    /\ allRawResults = <<>>
    /\ uniqueResults = <<>>
    /\ searchContext = <<>>
    /\ llmCalls = <<>>
    /\ resultObject \in { [events |-> es] : es \in SeqsUpTo(SortEvents, MaxSortLen) }
    /\ thrown = NoError
    /\ file = PreviousFile
    /\ writes = 0
    /\ exitCode = 0
    /\ response = NoResponse
    /\ InitRequest
    /\ InitNoPage

\* events.sort((a, b) => dateA - dateB), in place
SortEventsStep ==
    /\ pc = "sort"
    /\ resultObject' = [events |-> ArraySort(resultObject.events)]
    /\ pc' = "sorted"
    /\ UNCHANGED <<mode, now, dateParams, searchCalls, status, results,
                   outOfOrder, allRawResults, uniqueResults, searchContext,
                   llmCalls, thrown, file, writes, exitCode, response>>
    /\ UNCHANGED <<requestVars, pageVars>>

NextSort == SortEventsStep

SpecSort == InitSort /\ [][NextSort]_vars

(* ------------- the Query Planner on its own (pure function) ----------- *)
InitPlanner ==
    /\ mode = "batch"
    /\ pc = "plan"
    /\ now \in ValidClock
    /\ InitRun
    /\ InitRequest

\* const { startDate, endDate, searchString } = getDynamicDateParams()
PlanQuery ==
    /\ pc = "plan"
    /\ dateParams' = getDynamicDateParams(now)
    /\ pc' = "planned"
    /\ UNCHANGED <<mode, now, searchCalls, status, results, outOfOrder,
                   allRawResults, uniqueResults, searchContext, llmCalls,
                   resultObject, thrown, file, writes, exitCode, response>>
    /\ UNCHANGED <<requestVars, pageVars>>

NextPlanner == PlanQuery

SpecPlanner == InitPlanner /\ [][NextPlanner]_vars

(* --------------- the source enum on its own (pure function) ----------- *)
InitSource ==
    /\ mode \in Variants
    /\ pc = "label"
    /\ now = RunClock
    /\ dateParams = NoParams
    /\ searchCalls = <<>>
    /\ status = [s \in Sites |-> "idle"]
    /\ results = [s \in Sites |-> <<>>]
    /\ outOfOrder = FALSE
    /\ allRawResults = <<>>
    /\ uniqueResults = <<>>
    /\ searchContext = <<>>
    /\ llmCalls = <<>>
    /\ resultObject \in
          { [events |-> <<LabelledEvent(l, c)>>] :
              l \in SourceLabels, c \in EventCategoryEnum }
    /\ thrown = NoError
    /\ file = PreviousFile
    /\ writes = 0
    /\ exitCode = 0
    /\ response = NoResponse
    /\ InitRequest
    /\ InitNoPage

\* generateObject checks the answer against the schema of the variant
ValidateSource ==
    /\ pc = "label"
    /\ thrown' = IF EventSchemaOf(mode, resultObject) THEN NoError ELSE SchemaError
    /\ pc' = "labelled"
    /\ UNCHANGED <<mode, now, dateParams, searchCalls, status, results,
                   outOfOrder, allRawResults, uniqueResults, searchContext,
                   llmCalls, resultObject, file, writes, exitCode, response>>
    /\ UNCHANGED <<requestVars, pageVars>>

NextSource == ValidateSource

SpecSource == InitSource /\ [][NextSource]_vars

(* ------------------------------ the page ------------------------------ *)
\* the longest event list a response carries
MaxPageEvents == 2

\* an event with the optional field tags
WithTags(event, tags) ==
    [f \in DOMAIN event \cup {"tags"} |-> IF f = "tags" THEN tags ELSE event[f]]

\* events of a response: with and without tags, with an empty tag, without
\* sessions
PageEvents ==
    { WithTags(evLate, <<"rock">>), evEarly, WithTags(evFirst, <<"">>),
      WithTags(evNoSessions, <<"rock">>) }

\* a Response, as what the page reads of it: ok, whether the body parses as
\* JSON, and the parsed body
PageResponse(ok, json, data) == [ok |-> ok, json |-> json, data |-> data]

\* the body of an error answer of POST
ErrorBody == [error |-> "INTERNAL_ERROR"]

FetchResponses ==
    { PageResponse(TRUE, TRUE, [events |-> l]) :
        l \in SeqsUpTo(PageEvents, MaxPageEvents) }
        \cup { PageResponse(TRUE, TRUE, ErrorBody),
               PageResponse(TRUE, TRUE, NullObject),
               PageResponse(TRUE, FALSE, NullObject),
               PageResponse(FALSE, TRUE, ErrorBody),
               PageResponse(FALSE, FALSE, NullObject) }

\* setError('無法載入活動資料')
MsgLoadFailed == "cannot load the events"

\* setError('無法連線到伺服器，請稍後再試。')
MsgCannotConnect == "cannot reach the server"

\* a string in a condition: null and '' are falsy
Truthy(x) == x # Null /\ x # ""

\* event.tags || []
TagsOf(event) == IF "tags" \in DOMAIN event THEN event.tags ELSE <<>>

\* data.events || []
EventsListOf(data) == IF "events" \in DOMAIN data THEN data.events ELSE <<>>

\* the comparator of the page reads a.sessions[0].date[0] without ?. and
\* throws on an event without sessions; sort calls it on every element of a
\* list of two or more
PageSortThrows(list) ==
    Len(list) >= 2 /\ \E i \in 1..Len(list) : list[i].sessions = <<>>

\* filterOptions.categories and filterOptions.tags (as sets)
CategoryOptions == { events[i].category : i \in 1..Len(events) }

TagOptions == UNION { Range(TagsOf(events[i])) : i \in 1..Len(events) }

\* events.filter(...) of the memo filteredEvents
filteredEventsOf(list, category, location, tag) ==
    SelectSeq(list,
        LAMBDA event :
            /\ ~(Truthy(category) /\ event.category # category)
            /\ ~(Truthy(location)
                 /\ ~\E i \in 1..Len(event.sessions) :
                        event.sessions[i].location = location)
            /\ ~(Truthy(tag) /\ tag \notin Range(TagsOf(event))))

filteredEvents ==
    filteredEventsOf(events, activeCategory, activeLocation, activeTag)

hasActiveFilter ==
    Truthy(activeCategory) \/ Truthy(activeLocation) \/ Truthy(activeTag)

\* the grid reads event.sessions[0].date[0] of every displayed event
RenderThrows(list) == \E i \in 1..Len(list) : list[i].sessions = <<>>

\* the main view is on screen: not the loading screen, not the error view
MainView == pageStep = "settled" /\ ~loading /\ error = Null /\ ~crashed

InitPage ==
    /\ mode = "batch"
    /\ pc = "start"
    /\ now = RunClock
    /\ InitRun
    /\ InitRequest

\* first render of Home; useEffect calls fetchEvents, which awaits fetch
Mount ==
    /\ pageStep = "unmounted"
    /\ pageStep' = "fetching"
    /\ UNCHANGED <<fetched, events, loading, error, selectedEvent,
                   activeCategory, activeLocation, activeTag, storage,
                   crashed, lastClick>>
    /\ UNCHANGED <<runVars, requestVars>>

\* fetch resolved; fetchEvents awaits response.json()
FetchResolved(resp) ==
    /\ pageStep = "fetching"
    /\ fetched' = resp
    /\ pageStep' = "parsing"
    /\ UNCHANGED <<events, loading, error, selectedEvent, activeCategory,
                   activeLocation, activeTag, storage, crashed, lastClick>>
    /\ UNCHANGED <<runVars, requestVars>>

\* fetch rejected: catch, finally
FetchRejected ==
    /\ pageStep = "fetching"
    /\ error' = MsgCannotConnect
    /\ loading' = FALSE
    /\ pageStep' = "settled"
    /\ UNCHANGED <<fetched, events, selectedEvent, activeCategory,
                   activeLocation, activeTag, storage, crashed, lastClick>>
    /\ UNCHANGED <<runVars, requestVars>>

\* response.json() rejected: catch, finally
JsonRejected ==
    /\ pageStep = "parsing"
    /\ ~fetched.json
    /\ error' = MsgCannotConnect
    /\ loading' = FALSE
    /\ pageStep' = "settled"
    /\ UNCHANGED <<fetched, events, selectedEvent, activeCategory,
                   activeLocation, activeTag, storage, crashed, lastClick>>
    /\ UNCHANGED <<runVars, requestVars>>

\* variant of JsonResolved: the early return of a response that is not ok
\* leaves fetchEvents without setLoading(false)
JsonResolvedReturnSkipsFinally(quotaExceeded) ==
    /\ pageStep = "parsing"
    /\ fetched.json
    /\ pageStep' = "settled"
    /\ IF ~fetched.ok
       THEN /\ error' = MsgLoadFailed
            /\ UNCHANGED <<events, storage, crashed, loading>>
       ELSE IF fetched.data = NullObject \/ PageSortThrows(EventsListOf(fetched.data))
       THEN /\ error' = MsgCannotConnect
            /\ loading' = FALSE
            /\ UNCHANGED <<events, storage, crashed>>
       ELSE /\ events' = ArraySort(EventsListOf(fetched.data))
            /\ loading' = FALSE
            /\ IF quotaExceeded
               THEN /\ error' = MsgCannotConnect
                    /\ UNCHANGED <<storage, crashed>>
               ELSE /\ storage' = [value |-> events']
                    /\ crashed' = RenderThrows(events')
                    /\ UNCHANGED error
    /\ UNCHANGED <<fetched, selectedEvent, activeCategory, activeLocation,
                   activeTag, lastClick>>
    /\ UNCHANGED <<runVars, requestVars>>

\* response.json() resolved: the rest of fetchEvents runs to its end.
\* quotaExceeded: localStorage.setItem throws
JsonResolved(quotaExceeded) ==
    /\ pageStep = "parsing"
    /\ fetched.json
    /\ pageStep' = "settled"
    /\ loading' = FALSE
    /\ IF ~fetched.ok
       THEN /\ error' = MsgLoadFailed
            /\ UNCHANGED <<events, storage, crashed>>
       ELSE IF fetched.data = NullObject \/ PageSortThrows(EventsListOf(fetched.data))
       THEN /\ error' = MsgCannotConnect
            /\ UNCHANGED <<events, storage, crashed>>
       ELSE /\ events' = ArraySort(EventsListOf(fetched.data))
            /\ IF quotaExceeded
               THEN /\ error' = MsgCannotConnect
                    /\ UNCHANGED <<storage, crashed>>
               ELSE /\ storage' = [value |-> events']
                    /\ crashed' = RenderThrows(events')
                    /\ UNCHANGED error
    /\ UNCHANGED <<fetched, selectedEvent, activeCategory, activeLocation,
                   activeTag, lastClick>>
    /\ UNCHANGED <<runVars, requestVars>>

\* the retry button of the error view: setError(null), setLoading(true),
\* window.location.reload(); the reloaded page mounts and fetches again
Retry ==
    /\ pageStep = "settled"
    /\ ~loading
    /\ error # Null
    /\ pageStep' = "fetching"
    /\ fetched' = NullObject
    /\ events' = <<>>
    /\ loading' = TRUE
    /\ error' = Null
    /\ selectedEvent' = NullObject
    /\ activeCategory' = Null
    /\ activeLocation' = Null
    /\ activeTag' = Null
    /\ crashed' = FALSE
    /\ lastClick' = "retry"
    /\ UNCHANGED storage
    /\ UNCHANGED <<runVars, requestVars>>

\* the item "all" of the category nav: setActiveCategory(null)
SelectAllCategories ==
    /\ MainView
    /\ activeCategory' = Null
    /\ lastClick' = "category"
    /\ UNCHANGED <<pageStep, fetched, events, loading, error, selectedEvent,
                   activeLocation, activeTag, storage, crashed>>
    /\ UNCHANGED <<runVars, requestVars>>

\* an item of the category nav: setActiveCategory(cat)
SelectCategory(cat) ==
    /\ MainView
    /\ cat \in CategoryOptions
    /\ activeCategory' = cat
    /\ lastClick' = "category"
    /\ UNCHANGED <<pageStep, fetched, events, loading, error, selectedEvent,
                   activeLocation, activeTag, storage, crashed>>
    /\ UNCHANGED <<runVars, requestVars>>

\* a button of the tag filter: setActiveTag(activeTag === tag ? null : tag)
ToggleTag(tag) ==
    /\ MainView
    /\ tag \in TagOptions
    /\ activeTag' = IF activeTag = tag THEN Null ELSE tag
    /\ lastClick' = "tag"
    /\ UNCHANGED <<pageStep, fetched, events, loading, error, selectedEvent,
                   activeCategory, activeLocation, storage, crashed>>
    /\ UNCHANGED <<runVars, requestVars>>

\* the clear button, rendered when hasActiveFilter: clearAllFilters
clearAllFilters ==
    /\ MainView
    /\ hasActiveFilter
    /\ activeCategory' = Null
    /\ activeLocation' = Null
    /\ activeTag' = Null
    /\ lastClick' = "clear"
    /\ UNCHANGED <<pageStep, fetched, events, loading, error, selectedEvent,
                   storage, crashed>>
    /\ UNCHANGED <<runVars, requestVars>>

\* a card of the grid: setSelectedEvent(event)
OpenPanel(i) ==
    /\ MainView
    /\ i \in 1..Len(filteredEvents)
    /\ selectedEvent' = filteredEvents[i]
    /\ lastClick' = "card"
    /\ UNCHANGED <<pageStep, fetched, events, loading, error, activeCategory,
                   activeLocation, activeTag, storage, crashed>>
    /\ UNCHANGED <<runVars, requestVars>>

\* the backdrop or the close button of SidePanel: onClose
ClosePanel ==
    /\ MainView
    /\ selectedEvent # NullObject
    /\ selectedEvent' = NullObject
    /\ lastClick' = "close"
    /\ UNCHANGED <<pageStep, fetched, events, loading, error, activeCategory,
                   activeLocation, activeTag, storage, crashed>>
    /\ UNCHANGED <<runVars, requestVars>>

\* variant of PanelTagClick: Home passes onTagClick={setActiveTag}
PanelTagClickSetsTag(tag) ==
    /\ MainView
    /\ selectedEvent # NullObject
    /\ tag \in Range(TagsOf(selectedEvent))
    /\ activeTag' = tag
    /\ lastClick' = "panelTag"
    /\ UNCHANGED <<pageStep, fetched, events, loading, error, selectedEvent,
                   activeCategory, activeLocation, storage, crashed>>
    /\ UNCHANGED <<runVars, requestVars>>

\* a tag inside SidePanel: onTagClick?.(tag), and Home passes no onTagClick
PanelTagClick(tag) ==
    /\ MainView
    /\ selectedEvent # NullObject
    /\ tag \in Range(TagsOf(selectedEvent))
    /\ lastClick' = "panelTag"
    /\ UNCHANGED <<pageStep, fetched, events, loading, error, selectedEvent,
                   activeCategory, activeLocation, activeTag, storage, crashed>>
    /\ UNCHANGED <<runVars, requestVars>>

\* every tag of the events of the model
AllTags == UNION { Range(TagsOf(ev)) : ev \in PageEvents }

\* fetch settles: it resolves with a response or rejects
FetchSettles ==
    \/ \E resp \in FetchResponses : FetchResolved(resp)
    \/ FetchRejected

\* response.json() settles and the rest of fetchEvents runs
JsonSettles ==
    \/ \E quotaExceeded \in BOOLEAN : JsonResolved(quotaExceeded)
    \/ JsonRejected

NextPage ==
    \/ Mount
    \/ \E resp \in FetchResponses : FetchResolved(resp)
    \/ FetchRejected
    \/ \E quotaExceeded \in BOOLEAN : JsonResolved(quotaExceeded)
    \/ JsonRejected
    \/ Retry
    \/ SelectAllCategories
    \/ \E cat \in EventCategoryEnum : SelectCategory(cat)
    \/ \E tag \in AllTags : ToggleTag(tag)
    \/ clearAllFilters
    \/ \E i \in 1..MaxPageEvents : OpenPanel(i)
    \/ ClosePanel
    \/ \E tag \in AllTags : PanelTagClick(tag)

SpecPage == InitPage /\ [][NextPage]_vars

\* the browser settles every fetch and every body read (with a response, a
\* network error or a timeout) and runs the continuation of the await, and
\* React runs the effect of a mounted component
SpecPageFair ==
    /\ InitPage
    /\ [][NextPage]_vars
    /\ WF_vars(Mount)
    /\ WF_vars(FetchSettles)
    /\ WF_vars(JsonSettles)

(* ============================== properties ============================ *)
NSites == Cardinality(Sites)

\* the run has passed the join: generateObject has been called
Joined == llmCalls # <<>>

ExtractionErrors == TransportErrors \cup {SchemaError}

\* length a source contributes to the merged sequence
OkLen(s) == IF status[s] = "ok" THEN Len(results[s]) ELSE 0

\* position in the merged sequence before the first hit of source s
RECURSIVE OffsetOf(_)
OffsetOf(s) == IF s <= 1 THEN 0 ELSE OffsetOf(s - 1) + OkLen(s - 1)

Count(seq, e) == Cardinality({ i \in 1..Len(seq) : seq[i] = e })

SameEvents(a, b) ==
    /\ Len(a) = Len(b)
    /\ \A e \in Range(a) \cup Range(b) : Count(a, e) = Count(b, e)

QuotaNeedle == <<"q", "u", "o", "t", "a">>

Http429Needle == <<"4", "2", "9">>

ExceededNeedle == <<"e", "x", "c", "e", "e", "d", "e", "d">>

\* C1: single-source failure isolation.  While the searches run nothing is
\* thrown to the top level, no exit status is set and no response is made,
\* whatever sources have failed; after the join the merged sequence is the
\* concatenation, in source order, of the results of the sources that did
\* not throw; and an exit status 1 or a 429/500 response given after the
\* searches were issued comes from the extraction call, never from a search.
FailureIsolation ==
    /\ pc = "searching" =>
          (thrown = NoError /\ exitCode = 0 /\ response = NoResponse)
    /\ Joined =>
          /\ Len(allRawResults) = OffsetOf(NSites + 1)
          /\ \A s \in Sites : status[s] = "ok" =>
                \A j \in 1..Len(results[s]) :
                    allRawResults[OffsetOf(s) + j] = results[s][j]
    /\ (searchCalls # <<>> /\ (exitCode = 1 \/ response.status \in {429, 500})) =>
          (Joined /\ thrown \in ExtractionErrors)

\* a request answered 200 although the first source failed, the second
\* source's hits making up the merged sequence
FailureIsolationWitness ==
    /\ mode = "ondemand"
    /\ response.status = 200
    /\ status[1] = "failed"
    /\ status[2] = "ok"
    /\ allRawResults = results[2]
    /\ Len(allRawResults) > 0

\* C2: a batch run whose generateObject call failed has not written the
\* output file (events.json is as the previous run left it) and has exit
\* status 1; a run that wrote the file caught no error.
ExtractionFailureFatal ==
    mode = "batch" =>
        /\ thrown # NoError => (writes = 0 /\ file = PreviousFile /\ exitCode = 1)
        /\ writes > 0 => (thrown = NoError /\ exitCode = 0)

\* a batch run ended by a schema-validation failure of generateObject
ExtractionFailureFatalWitness ==
    /\ mode = "batch"
    /\ pc = "done"
    /\ thrown = SchemaError
    /\ exitCode = 1

\* C3 as claimed: a thrown error gives 429 QUOTA_EXCEEDED when its message
\* contains "429" or "quota", and 500 INTERNAL_ERROR in every other case.
ErrorMappingTwoNeedles ==
    (mode = "ondemand" /\ thrown # NoError) =>
        IF \/ Includes(MessageOf(thrown), Http429Needle)
           \/ Includes(MessageOf(thrown), QuotaNeedle)
        THEN response.status = 429 /\ response.body.error = "QUOTA_EXCEEDED"
        ELSE response.status = 500 /\ response.body.error = "INTERNAL_ERROR"

\* C3 amended: a thrown error gives 429 QUOTA_EXCEEDED when its message
\* contains "429", "quota" or "exceeded", and 500 INTERNAL_ERROR in every
\* other case.
ErrorMapping ==
    (mode = "ondemand" /\ thrown # NoError) =>
        IF \/ Includes(MessageOf(thrown), Http429Needle)
           \/ Includes(MessageOf(thrown), QuotaNeedle)
           \/ Includes(MessageOf(thrown), ExceededNeedle)
        THEN response.status = 429 /\ response.body.error = "QUOTA_EXCEEDED"
        ELSE response.status = 500 /\ response.body.error = "INTERNAL_ERROR"

\* a 429 answer to an error whose message has "exceeded" and neither "429"
\* nor "quota"
ErrorMappingWitness ==
    /\ mode = "ondemand"
    /\ response.status = 429
    /\ Includes(MessageOf(thrown), ExceededNeedle)
    /\ ~Includes(MessageOf(thrown), Http429Needle)
    /\ ~Includes(MessageOf(thrown), QuotaNeedle)

\* C4: the deduplicated sequence has exactly one entry for every link of the
\* input, every entry's link occurs in the input, and the entry is the last
\* raw hit of the input with that link.
DedupContract ==
    pc = "deduped" =>
        /\ \A i \in 1..Len(allRawResults) :
              Cardinality({ j \in 1..Len(uniqueResults) :
                              uniqueResults[j].url = allRawResults[i].url }) = 1
        /\ \A j \in 1..Len(uniqueResults) :
              \E i \in 1..Len(allRawResults) :
                  /\ allRawResults[i] = uniqueResults[j]
                  /\ \A k \in (i + 1)..Len(allRawResults) :
                        allRawResults[k].url # uniqueResults[j].url

\* an input in which a link occurs twice with different fields
DedupContractWitness ==
    /\ pc = "deduped"
    /\ Len(uniqueResults) = 2
    /\ \E i \in 1..Len(allRawResults) : \E k \in 1..Len(allRawResults) :
          /\ i < k
          /\ allRawResults[i].url = allRawResults[k].url
          /\ allRawResults[i] # allRawResults[k]
          /\ allRawResults[k] \in Range(uniqueResults)

\* the leading date of event e parses
HasValidDate(e) == ~DateValueOf(LeadingDate(e)).nan

\* C5: the sorter's output is non-decreasing by leading date: of two events
\* whose leading dates parse, the one placed earlier has no later date.
SortedOutput ==
    pc = "sorted" =>
        \A i \in 1..Len(resultObject.events) :
            \A j \in i..Len(resultObject.events) :
                (HasValidDate(resultObject.events[i]) /\ HasValidDate(resultObject.events[j]))
                    => DateValueOf(LeadingDate(resultObject.events[i])).v
                         <= DateValueOf(LeadingDate(resultObject.events[j])).v

\* C6: join before extraction.  As soon as one search call is issued all of
\* them are; generateObject is called only when every source has settled;
\* and the links of the context it is given are those of all the sources'
\* results, in whatever order the search calls settled.
JoinBeforeExtraction ==
    /\ (\E s \in Sites : status[s] # "idle") =>
          (Len(searchCalls) = NSites /\ \A s \in Sites : status[s] # "idle")
    /\ Joined =>
          /\ \A s \in Sites : status[s] \in {"ok", "failed"}
          /\ { Blocks(llmCalls[1].data)[i].url :
                  i \in 1..Len(Blocks(llmCalls[1].data)) }
                = UNION { { results[s][j].url : j \in 1..Len(results[s]) } : s \in Sites }

\* extraction started after a source settled before an earlier one,
\* both with hits
JoinBeforeExtractionWitness ==
    /\ Joined
    /\ outOfOrder
    /\ results[1] # <<>>
    /\ results[2] # <<>>
    /\ results[1][1].url # results[2][1].url

\* what the batch job writes to events.json for an extraction result
BatchFileFor(object) == [events |-> ArraySort(object.events)]

\* C7 as claimed: the body of a successful POST is the collection the batch
\* job writes for the same extraction result, the events in sorted order.
OnDemandBodyIsBatchFile ==
    (mode = "ondemand" /\ response.status = 200) =>
        response.body = BatchFileFor(resultObject)

\* C7 amended: the body of a successful POST is the extraction result as
\* returned, not sorted; it holds the same events, each as many times, as
\* the collection the batch job writes for that extraction result.
OnDemandBodySameEvents ==
    (mode = "ondemand" /\ response.status = 200) =>
        /\ response.body.events = resultObject.events
        /\ SameEvents(response.body.events, BatchFileFor(resultObject).events)

\* a successful POST whose body is not in the order the batch job writes
OnDemandBodySameEventsWitness ==
    /\ mode = "ondemand"
    /\ response.status = 200
    /\ Len(response.body.events) = 2
    /\ response.body # BatchFileFor(resultObject)

\* the collections published so far: the file a batch run wrote and the
\* body of a successful response
Published ==
    (IF writes > 0 THEN {file} ELSE {})
        \cup (IF response.status = 200 THEN {response.body} ELSE {})

\* C8: every session of a published collection has a date array of length
\* 1 or 2.
SessionDateArity ==
    \A c \in Published : \A i \in 1..Len(c.events) :
        \A k \in 1..Len(c.events[i].sessions) :
            Len(c.events[i].sessions[k].date) \in {1, 2}

\* C9: every event of a published collection has at least one session.
EventsHaveSessions ==
    \A c \in Published : \A i \in 1..Len(c.events) :
        Len(c.events[i].sessions) >= 1

\* the k-th calendar month counted from the month of nw (k = 0 is its own)
CalendarMonth(nw, k) ==
    [year  |-> (nw.year * 12 + nw.month + k) \div 12,
     month |-> ((nw.year * 12 + nw.month + k) % 12) + 1]

\* C10: the keywords are exactly three terms: the current calendar month
\* and the two calendar months that follow it.
KeywordsConsecutiveMonths ==
    pc = "planned" =>
        dateParams.searchString = [k \in 1..3 |-> CalendarMonth(now, k - 1)]


\* the names of the sources a variant is configured with
SiteNamesOf(variant) ==
    { TargetSitesOf(variant)[i].name : i \in 1..Len(TargetSitesOf(variant)) }

\* C11: in each variant the values the schema allows for an event's source
\* are the names of the configured sources and the fallback, and no other:
\* a labelled event passes validation exactly when its label is one of them.
SourceEnumMatchesSites ==
    pc = "labelled" =>
        (thrown = NoError
            <=> resultObject.events[1].source \in SiteNamesOf(mode) \cup {"other"})


\* the number of tvly.search calls made for source s
CallsTo(s) ==
    Cardinality({ i \in 1..Len(searchCalls) :
                    searchCalls[i].domain = TARGET_SITES[s].domain })

PromptNonInterference ==
    mode = "ondemand" =>
        /\ request.prompt # twin.request.prompt
        /\ twin.searchCalls = searchCalls
        /\ twin.llmCalls = llmCalls
        /\ twin.response = response

\* two requests with different prompts, both answered with the same
\* non-empty collection after searching and extracting
PromptNonInterferenceWitness ==
    /\ mode = "ondemand"
    /\ pc = "done"
    /\ request.prompt # twin.request.prompt
    /\ Len(searchCalls) = NSites
    /\ Len(llmCalls) = 1
    /\ response.status = 200
    /\ Len(response.body.events) > 0
    /\ twin.response = response


\* a key of one of the two collaborators is missing from process.env
KeyMissing == ~env.TAVILY_API_KEY \/ ~env.GOOGLE_GENERATIVE_AI_API_KEY

\* C14: a run started with the API key of either collaborator missing from
\* the environment issues no search call and no generateObject call,
\* publishes nothing, and ends as a failed run.
ConfigFatalAtStartup ==
    KeyMissing =>
        /\ searchCalls = <<>>
        /\ llmCalls = <<>>
        /\ writes = 0
        /\ file = PreviousFile
        /\ pc = "done" => (exitCode = 1 \/ response.status = 500)


\* C15: the assembled context of n unique hits is n blocks with a separator
\* between neighbours and none before the first or after the last; block i
\* (from 0) carries the identifier i and the title and link of hit i, and
\* its snippet is the first characters of the hit's content, all of them if
\* there are at most SnippetLimit (1000) and SnippetLimit otherwise.
ContextContract ==
    pc = "assembled" =>
        LET n == Len(uniqueResults)
            t == searchContext
        IN  /\ Len(t) = IF n = 0 THEN 0 ELSE 2 * n - 1
            /\ \A i \in 1..n :
                  /\ t[2 * i - 1] # Separator
                  /\ t[2 * i - 1].id = i - 1
                  /\ t[2 * i - 1].title = uniqueResults[i].title
                  /\ t[2 * i - 1].url = uniqueResults[i].url
                  /\ Len(t[2 * i - 1].snippet) = Min(Len(uniqueResults[i].content), 1000)
                  /\ \A k \in 1..Len(t[2 * i - 1].snippet) :
                        t[2 * i - 1].snippet[k] = uniqueResults[i].content[k]
            /\ \A i \in 1..(n - 1) : t[2 * i] = Separator

\* a context of two blocks, the first hit's content one character over the
\* budget and cut to it, the second hit's content shorter than the budget
ContextContractWitness ==
    /\ pc = "assembled"
    /\ Len(uniqueResults) = 2
    /\ Len(uniqueResults[1].content) = 1001
    /\ Len(uniqueResults[2].content) = 2
    /\ Len(searchContext) = 3
    /\ Len(searchContext[1].snippet) = 1000
    /\ searchContext[2] = Separator
    /\ searchContext[3].snippet = uniqueResults[2].content

\* position of the first raw hit with link u in the merged sequence
FirstSeen(u) ==
    CHOOSE i \in 1..Len(allRawResults) :
        /\ allRawResults[i].url = u
        /\ \A k \in 1..(i - 1) : allRawResults[k].url # u

\* position of the last raw hit with link u in the merged sequence
LastSeen(u) ==
    CHOOSE i \in 1..Len(allRawResults) :
        /\ allRawResults[i].url = u
        /\ \A k \in (i + 1)..Len(allRawResults) : allRawResults[k].url # u

\* C19: the deduplicated entries stand in the order in which their links
\* first occur in the merged raw hits, each entry is the last raw hit with
\* its link, and block j of the context (identifier j - 1) is made of the
\* j-th entry, so the identifiers follow first-seen order.
DedupOrdering ==
    pc = "deduped" =>
        /\ \A j \in 1..Len(uniqueResults) : \A k \in 1..Len(uniqueResults) :
              j < k => FirstSeen(uniqueResults[j].url) < FirstSeen(uniqueResults[k].url)
        /\ \A j \in 1..Len(uniqueResults) :
              uniqueResults[j] = allRawResults[LastSeen(uniqueResults[j].url)]
        /\ Len(Blocks(searchContext)) = Len(uniqueResults)
        /\ \A j \in 1..Len(uniqueResults) :
              /\ Blocks(searchContext)[j].id = j - 1
              /\ Blocks(searchContext)[j].url = uniqueResults[j].url
              /\ Blocks(searchContext)[j].title = uniqueResults[j].title

\* link "a" is seen first, then "b", then "a" again with other fields: the
\* entry of "a" stays first, with identifier 0 and the later title
DedupOrderingWitness ==
    /\ pc = "deduped"
    /\ allRawResults = <<hitA, hitB, hitA2>>
    /\ uniqueResults = <<hitA2, hitB>>
    /\ Blocks(searchContext)[1].id = 0
    /\ Blocks(searchContext)[1].title = hitA2.title



\* C16: once the page is mounted and its fetch is under way, loading becomes
\* false, whichever way the fetch and the reading of the body end; and
\* loading goes from false to true only by the retry button, which reloads
\* the page.
LoadTerminates ==
    /\ (pageStep = "fetching") ~> (pageStep = "settled" /\ ~loading)
    /\ [][(~loading /\ loading') => (lastClick' = "retry" /\ pageStep' = "fetching")]_vars

\* the ways for the load to end, each with loading false: a response that
\* is not ok, and a list whose sort threw
LoadTerminatesWitness ==
    /\ pageStep = "settled"
    /\ ~loading
    /\ \/ ~fetched.ok /\ fetched.json /\ error = MsgLoadFailed
       \/ /\ fetched.ok
          /\ PageSortThrows(EventsListOf(fetched.data))
          /\ error = MsgCannotConnect

\* C17: whenever the page holds an error message its event list is empty.
ErrorExcludesEvents == error # Null => events = <<>>

\* an active filter lets the event through; a filter is active when it is
\* not null
PassesActiveFilters(event) ==
    /\ activeCategory # Null => event.category = activeCategory
    /\ activeLocation # Null =>
          \E i \in 1..Len(event.sessions) : event.sessions[i].location = activeLocation
    /\ activeTag # Null => activeTag \in Range(TagsOf(event))

\* C18: the displayed list is the events that pass every active filter, in
\* the order of events; with no active filter it is events itself.
FilteringContract ==
    /\ filteredEvents = SelectSeq(events, PassesActiveFilters)
    /\ (activeCategory = Null /\ activeLocation = Null /\ activeTag = Null)
          => filteredEvents = events

\* C20: activeLocation is null in every state, whatever the user clicks, so
\* the displayed list is what the category and tag filters alone leave; and
\* a click on a tag inside the side panel leaves activeTag as it was.
LocationFilterUnreachable ==
    /\ [](/\ activeLocation = Null
          /\ filteredEvents = filteredEventsOf(events, activeCategory, Null, activeTag))
    /\ [][lastClick' = "panelTag" => activeTag' = activeTag]_vars

\* a tag of the open side panel has been clicked while another tag filter
\* was active, and some event is filtered out
LocationFilterUnreachableWitness ==
    /\ lastClick = "panelTag"
    /\ selectedEvent # NullObject
    /\ activeTag = "rock"
    /\ activeLocation = Null
    /\ Len(filteredEvents) < Len(events)

====
